---------------------------- MODULE Spec2Model ----------------------------
(***************************************************************************)
(* Model of two pieces of the repository:                                  *)
(*   - lms/djangoapps/commerce/utils.py : audit_log, the audit-trail       *)
(*     formatter (sort the keyword arguments by key, render key="value",   *)
(*     join with ", ", prefix with the name, emit one INFO entry);         *)
(*   - pavelib/servers.py : the paver tasks that start the development     *)
(*     servers and their helpers (run_server, lms, studio, devstack,       *)
(*     celery, run_all_servers, update_db, check_settings).                *)
(*                                                                         *)
(* Text handled by audit_log is modelled as a sequence of one-character    *)
(* strings so that ordering, formatting and parsing are computed           *)
(* character by character.  Settings names and command-line arguments of   *)
(* the paver tasks are TLA+ strings.                                       *)
(***************************************************************************)
EXTENDS Integers, Sequences, FiniteSets, TLC

VARIABLES
    sink,           \* the logging sink of utils.py: sequence of [level, msg]
    calls,          \* history of the audit_log calls made: [name, kwargs]
    ret,            \* what the last audit_log call returned ("unset": nothing)
    pending,        \* the call a SpecFormat behaviour is about to make
    pc,             \* concurrent callers: the line each one is about to run,
                    \* "done", or the exception that ended the call
    args,           \* concurrent callers: (name, kwargs) of each call
    d,              \* concurrent callers: local d of each call
    payload,        \* concurrent callers: local payload of each call
    message,        \* concurrent callers: local message of each call
    task,           \* paver: the task invoked and its options
    events,         \* paver: the calls the task made, in order
    exit_status,    \* paver: status passed to exit(), or -1
    raised          \* paver: the exception that ended the task, or "none"

auditVars  == <<sink, calls, ret, pending>>
threadVars == <<pc, args, d, payload, message>>
paverVars  == <<task, events, exit_status, raised>>
vars       == <<sink, calls, ret, pending, pc, args, d, payload, message,
                task, events, exit_status, raised>>

----------------------------------------------------------------------------
(* Bounds of the model.                                                    *)

MaxFields  == 3     \* most keyword arguments in one audit_log call
MaxCalls   == 3     \* most audit_log calls in one sequential behaviour
NumThreads == 2     \* concurrent audit_log callers

----------------------------------------------------------------------------
(* Python 2 byte strings: sequences of characters ordered by code point.   *)

ASCII ==
    << " ", "!", "\"", "#", "$", "%", "&", "'", "(", ")", "*", "+",
       ",", "-", ".", "/", "0", "1", "2", "3", "4", "5", "6", "7",
       "8", "9", ":", ";", "<", "=", ">", "?", "@", "A", "B", "C",
       "D", "E", "F", "G", "H", "I", "J", "K", "L", "M", "N", "O",
       "P", "Q", "R", "S", "T", "U", "V", "W", "X", "Y", "Z", "[",
       "\\", "]", "^", "_", "(grave)", "a", "b", "c", "d", "e", "f", "g",
       "h", "i", "j", "k", "l", "m", "n", "o", "p", "q", "r", "s",
       "t", "u", "v", "w", "x", "y", "z", "{", "|", "}", "~" >>

\* ord(c): the code point of a printable ASCII character (ASCII[i] is the
\* character of code point 31 + i; the grave accent, which cannot be written
\* in a string of this language, is left as a placeholder).
ord(c) == 31 + (CHOOSE i \in 1..Len(ASCII) : ASCII[i] = c)

\* a < b for Python 2 str: the first differing character decides, and a
\* proper prefix is smaller.
StrLess(a, b) ==
    \E i \in 1..(Len(a) + 1) :
        /\ i <= Len(b)
        /\ \A j \in 1..(i - 1) : a[j] = b[j]
        /\ \/ i = Len(a) + 1
           \/ ord(a[i]) < ord(b[i])

\* Python values that are passed as keyword arguments.
PyInt(n)  == [t |-> "int",  n |-> n, s |-> <<>>]
PyStr(s)  == [t |-> "str",  n |-> 0, s |-> s]
PyBool(b) == [t |-> "bool", n |-> IF b THEN 1 ELSE 0, s |-> <<>>]
PyNone    == [t |-> "None", n |-> 0, s |-> <<>>]
PyUnicode(s) == [t |-> "unicode", n |-> 0, s |-> s]

\* Characters outside ASCII: a code point above 127 of a unicode string
\* (e-acute) and the two bytes of its UTF-8 form in a byte string.
NonAscii == { "(U+00E9)", "(0xC3)", "(0xA9)" }

IsAscii(s) == \A i \in 1..Len(s) : s[i] \notin NonAscii

DigitChars == <<"0", "1", "2", "3", "4", "5", "6", "7", "8", "9">>

RECURSIVE Digits(_)
Digits(n) ==
    IF n < 10 THEN <<DigitChars[n + 1]>>
    ELSE Digits(n \div 10) \o <<DigitChars[(n % 10) + 1]>>

\* str(v), which is what '{v}'.format(v=v) renders for these types (for a
\* unicode value: its ASCII encoding, which exists when it is all ASCII).
str(v) ==
    CASE v.t = "int"  -> IF v.n < 0 THEN <<"-">> \o Digits(0 - v.n)
                         ELSE Digits(v.n)
      [] v.t = "str"  -> v.s
      [] v.t = "unicode" -> v.s
      [] v.t = "bool" -> IF v.n = 1 THEN <<"T", "r", "u", "e">>
                         ELSE <<"F", "a", "l", "s", "e">>
      [] v.t = "None" -> <<"N", "o", "n", "e">>

----------------------------------------------------------------------------
(* audit_log, lms/djangoapps/commerce/utils.py.                            *)
(* kwargs is modelled by kwargs.items(): a sequence of <<key, value>>      *)
(* pairs with distinct keys, in the arbitrary order of a Python 2 dict.    *)

\* Insert pair x into the sorted list s after every pair whose key is not
\* greater: sorted() is stable.
RECURSIVE InsertByKey(_, _)
InsertByKey(x, s) ==
    IF s = <<>> THEN <<x>>
    ELSE IF StrLess(x[1], s[1][1]) THEN <<x>> \o s
    ELSE <<s[1]>> \o InsertByKey(x, Tail(s))

RECURSIVE SortByKey(_)
SortByKey(items) ==
    IF items = <<>> THEN <<>>
    ELSE InsertByKey(items[Len(items)], SortByKey(SubSeq(items, 1, Len(items) - 1)))

\* Mutants of sorted: the sort left out, and the sort reversed.
sorted_omitted(items) == items

sorted_reversed(items) ==
    LET s == SortByKey(items)
    IN  [i \in 1..Len(s) |-> s[Len(s) + 1 - i]]

\* line 29: OrderedDict(sorted(kwargs.items(), key=lambda i: i[0])); the
\* ordered dictionary of pairs with distinct keys iterates in that order.
sorted(items) == SortByKey(items)

\* Mutant of format_pair: the value is not wrapped in quotes.
format_pair_unquoted(k, v) == k \o <<"=">> \o str(v)

\* line 33: '{k}="{v}"'.format(k=k, v=v)
format_pair(k, v) == k \o <<"=", "\"">> \o str(v) \o <<"\"">>

\* line 33: sep.join(list)
RECURSIVE join(_, _)
join(sep, list) ==
    IF list = <<>> THEN <<>>
    ELSE IF Len(list) = 1 THEN list[1]
    ELSE list[1] \o sep \o join(sep, Tail(list))

\* line 33: payload = u', '.join([... for k, v in d.iteritems()])
Payload(dd) ==
    join(<<",", " ">>, [i \in 1..Len(dd) |-> format_pair(dd[i][1], dd[i][2])])

\* line 34: message = u'{name}: {payload}'.format(name=name, payload=payload)
Message(name, pl) == name \o <<":", " ">> \o pl

\* line 36: log.info(message) hands one INFO record to the sink.
Emit(msg) == sink' = Append(sink, [level |-> "INFO", msg |-> msg])

\* line 8: binding the arguments; a keyword argument called name collides
\* with the positional parameter and the call raises before the body runs.
Line8Error(kwargs) ==
    IF \E i \in 1..Len(kwargs) : kwargs[i][1] = <<"n", "a", "m", "e">>
    THEN "TypeError" ELSE "none"

\* line 33 under Python 2: the byte-string template '{k}="{v}"' encodes a
\* unicode value with the ascii codec while the list is built
\* (UnicodeEncodeError); then u', '.join decodes every rendered pair with
\* the ascii codec (UnicodeDecodeError on a byte above 127).
Line33Error(dd) ==
    IF \E i \in 1..Len(dd) : dd[i][2].t = "unicode" /\ ~IsAscii(dd[i][2].s)
    THEN "UnicodeEncodeError"
    ELSE IF \E i \in 1..Len(dd) : ~IsAscii(format_pair(dd[i][1], dd[i][2]))
    THEN "UnicodeDecodeError"
    ELSE "none"

\* line 34 under Python 2: the unicode template decodes the byte string
\* name with the ascii codec.
Line34Error(name) == IF IsAscii(name) THEN "none" ELSE "UnicodeDecodeError"

\* The exception a call of audit_log raises, or "none".
Raises(name, kwargs) ==
    IF Line8Error(kwargs) # "none" THEN Line8Error(kwargs)
    ELSE IF Line33Error(sorted(kwargs)) # "none" THEN Line33Error(sorted(kwargs))
    ELSE Line34Error(name)

\* The record of one call in the history: its arguments, the exception it
\* raised ("none" when it returned) and the position of its entry in the
\* sink (0 when it wrote none).
Called(name, kwargs, exc, entry) ==
    [name |-> name, kwargs |-> kwargs, raised |-> exc, entry |-> entry]

\* Mutant of audit_log: d is a module-level list that keeps the items of
\* the previous call.
audit_log_shared_d(name, kwargs) ==
    LET prev == IF calls = <<>> THEN <<>> ELSE calls[Len(calls)].kwargs
    IN  IF Raises(name, kwargs) = "none"
        THEN /\ Emit(Message(name, Payload(sorted(prev \o kwargs))))
             /\ calls' = Append(calls, Called(name, kwargs, "none", Len(sink) + 1))
             /\ ret' = "None"
        ELSE /\ sink' = sink
             /\ calls' = Append(calls, Called(name, kwargs, Raises(name, kwargs), 0))
             /\ ret' = "unset"

\* One whole call audit_log(name, **kwargs), lines 8-36: either it raises
\* before line 36 and nothing is logged, or it logs one entry and returns
\* None.
audit_log(name, kwargs) ==
    IF Raises(name, kwargs) = "none"
    THEN /\ Emit(Message(name, Payload(sorted(kwargs))))
         /\ calls' = Append(calls, Called(name, kwargs, "none", Len(sink) + 1))
         /\ ret' = "None"
    ELSE /\ sink' = sink
         /\ calls' = Append(calls, Called(name, kwargs, Raises(name, kwargs), 0))
         /\ ret' = "unset"

----------------------------------------------------------------------------
(* Inputs.                                                                 *)

Names == { <<"x">>, <<"p", "a", "y">> }

\* "B" < "a" < "ab" < "b" < "c" by code point.
Keys == { <<"a">>, <<"b">>, <<"c">>, <<"a", "b">>, <<"B">> }

Values == { PyInt(1), PyInt(-42), PyStr(<<"a", "\"", "b">>), PyNone }

\* kwargs.items() over the given keys and values: every sequence of at most
\* n pairs with distinct keys.
ItemsOver(K, V, n) ==
    UNION { { s \in [1..m -> K \X V] :
                \A i, j \in 1..m : i # j => s[i][1] # s[j][1] } :
            m \in 0..n }

KeySet(items) == { items[i][1] : i \in 1..Len(items) }
PairSet(items) == { items[i] : i \in 1..Len(items) }


\* The state of the parts of the model a specification does not exercise.
NoThreads == /\ pc = <<>> /\ args = <<>> /\ d = <<>>
             /\ payload = <<>> /\ message = <<>>

NoPaver == /\ task = [name |-> "none"] /\ events = <<>> /\ exit_status = -1
           /\ raised = "none"

NoAudit == /\ sink = <<>> /\ calls = <<>> /\ ret = "unset"
           /\ pending = [name |-> <<>>, kwargs |-> <<>>]

----------------------------------------------------------------------------
(* SpecFormat: one call of audit_log on every input of the bounded sets.   *)

InitFormat ==
    /\ sink = <<>>
    /\ calls = <<>>
    /\ ret = "unset"
    /\ pending \in [name : Names, kwargs : ItemsOver(Keys, Values, MaxFields)]
    /\ NoThreads
    /\ NoPaver

FormatCall ==
    /\ calls = <<>>
    /\ audit_log(pending.name, pending.kwargs)
    /\ UNCHANGED <<pending, threadVars, paverVars>>

SpecFormat == InitFormat /\ [][FormatCall]_vars

----------------------------------------------------------------------------
(* SpecSeq: up to MaxCalls calls of audit_log, one after the other.        *)

SeqKeys == { <<"a">>, <<"b">> }
SeqValues == { PyInt(1) }

\* Calls whose arguments are not all ASCII, or that pass a field called
\* name.
EAcute == PyUnicode(<<"(U+00E9)">>)
EAcuteUtf8 == PyStr(<<"(0xC3)", "(0xA9)">>)

OtherCalls ==
    { [name |-> <<"x">>, kwargs |-> << <<<<"a">>, EAcute>> >>],
      [name |-> <<"x">>, kwargs |-> << <<<<"a">>, EAcuteUtf8>> >>],
      [name |-> <<"x">>, kwargs |-> << <<<<"b">>, EAcute>>, <<<<"a">>, EAcuteUtf8>> >>],
      [name |-> <<"x">>, kwargs |-> << <<<<"a">>, PyUnicode(<<"a", "b">>)>> >>],
      [name |-> <<"(0xC3)", "(0xA9)">>, kwargs |-> << <<<<"a">>, PyInt(1)>> >>],
      [name |-> <<"x">>, kwargs |-> << <<<<"n", "a", "m", "e">>, PyInt(1)>> >>] }

SeqCalls ==
    [name : Names, kwargs : ItemsOver(SeqKeys, SeqValues, MaxFields)]
        \cup OtherCalls

InitSeq == NoAudit /\ NoThreads /\ NoPaver

SeqCall ==
    /\ Len(calls) < MaxCalls
    /\ \E c \in SeqCalls : audit_log(c.name, c.kwargs)
    /\ UNCHANGED <<pending, threadVars, paverVars>>

SpecSeq == InitSeq /\ [][SeqCall]_vars

----------------------------------------------------------------------------
(* SpecConc: NumThreads callers run audit_log at the same time, one call   *)
(* each, with pairwise distinct field sets.  name, kwargs, d, payload and  *)
(* message are locals of the call; the only shared object is the sink,     *)
(* whose handler takes a lock around the write of one record.              *)

Threads == 1..NumThreads

ConcCalls == [name : Names, kwargs : ItemsOver(SeqKeys, SeqValues, MaxFields)]

InitConc ==
    /\ NoAudit
    /\ NoPaver
    /\ pc = [t \in Threads |-> "l29"]
    /\ args \in { f \in [Threads -> ConcCalls] :
                    \A t, u \in Threads :
                        t # u => PairSet(f[t].kwargs) # PairSet(f[u].kwargs) }
    /\ d = [t \in Threads |-> <<>>]
    /\ payload = [t \in Threads |-> <<>>]
    /\ message = [t \in Threads |-> <<>>]

\* line 29: d = OrderedDict(sorted(kwargs.items(), key=lambda i: i[0]))
Line29(t) ==
    /\ pc[t] = "l29"
    /\ d' = [d EXCEPT ![t] = sorted(args[t].kwargs)]
    /\ pc' = [pc EXCEPT ![t] = "l33"]
    /\ UNCHANGED <<args, payload, message, auditVars, paverVars>>

\* Mutant of Line33: payload is a module-level variable, one for all callers.
Line33_global_payload(t) ==
    /\ pc[t] = "l33"
    /\ IF Line33Error(d[t]) = "none"
       THEN /\ payload' = [u \in Threads |-> Payload(d[t])]
            /\ pc' = [pc EXCEPT ![t] = "l34"]
       ELSE /\ payload' = payload
            /\ pc' = [pc EXCEPT ![t] = Line33Error(d[t])]
    /\ UNCHANGED <<args, d, message, auditVars, paverVars>>

\* line 33: payload = u', '.join([...])
Line33(t) ==
    /\ pc[t] = "l33"
    /\ IF Line33Error(d[t]) = "none"
       THEN /\ payload' = [payload EXCEPT ![t] = Payload(d[t])]
            /\ pc' = [pc EXCEPT ![t] = "l34"]
       ELSE /\ payload' = payload
            /\ pc' = [pc EXCEPT ![t] = Line33Error(d[t])]
    /\ UNCHANGED <<args, d, message, auditVars, paverVars>>

\* line 34: message = u'{name}: {payload}'.format(...)
Line34(t) ==
    /\ pc[t] = "l34"
    /\ IF Line34Error(args[t].name) = "none"
       THEN /\ message' = [message EXCEPT ![t] = Message(args[t].name, payload[t])]
            /\ pc' = [pc EXCEPT ![t] = "l36"]
       ELSE /\ message' = message
            /\ pc' = [pc EXCEPT ![t] = Line34Error(args[t].name)]
    /\ UNCHANGED <<args, d, payload, auditVars, paverVars>>

\* line 36: log.info(message), then the call returns.
Line36(t) ==
    /\ pc[t] = "l36"
    /\ Emit(message[t])
    /\ pc' = [pc EXCEPT ![t] = "done"]
    /\ UNCHANGED <<calls, ret, pending, args, d, payload, message, paverVars>>

NextConc ==
    \E t \in Threads : Line29(t) \/ Line33(t) \/ Line34(t) \/ Line36(t)

SpecConc == InitConc /\ [][NextConc]_vars

----------------------------------------------------------------------------
(* pavelib/servers.py.  Values of options and arguments: a string, None,   *)
(* a boolean, an integer, or Absent for an attribute the options object    *)
(* does not have.                                                          *)

Absent   == [t |-> "absent", s |-> "", n |-> 0]
None     == [t |-> "None",   s |-> "", n |-> 0]
StrV(x)  == [t |-> "str",    s |-> x,  n |-> 0]
BoolV(b) == [t |-> "bool",   s |-> "", n |-> IF b THEN 1 ELSE 0]
IntV(n)  == [t |-> "int",    s |-> "", n |-> n]

\* Python truth value: None, '', False and 0 are false.
Truthy(v) ==
    \/ v.t = "str" /\ v.s # ""
    \/ v.t \in {"bool", "int"} /\ v.n # 0

Digit == <<"0", "1", "2", "3", "4", "5", "6", "7", "8", "9">>

RECURSIVE IntToStr(_)
IntToStr(n) ==
    IF n < 10 THEN Digit[n + 1]
    ELSE IntToStr(n \div 10) \o Digit[(n % 10) + 1]

\* '{}'.format(v)
format(v) ==
    CASE v.t = "str"  -> v.s
      [] v.t = "int"  -> IntToStr(v.n)
      [] v.t = "bool" -> IF v.n = 1 THEN "True" ELSE "False"
      [] v.t = "None" -> "None"

\* getattr(options, name, default)
getattr(options, name, default) ==
    IF options[name] = Absent THEN default ELSE options[name]

DEFAULT_PORT == [lms |-> 8000, studio |-> 8001]
DEFAULT_SETTINGS == "devstack"
OPTIMIZED_SETTINGS == "devstack_optimized"
OPTIMIZED_ASSETS_SETTINGS == "test_static_optimized"

\* What a task does is recorded as the sequence of calls it makes.
Event(op, target, a) == [op |-> op, target |-> target, args |-> a, cmds |-> <<>>]

\* django_cmd(system, settings, *args), imported from pavelib.utils.cmd: the
\* command is kept as the arguments it is built from.
django_cmd(system, settings, a) == <<"django_cmd", system, settings>> \o a

\* call_task('pavelib.assets.update_assets', args=args)
UpdateAssets(a) == Event("call_task", "pavelib.assets.update_assets", a)

\* @needs('pavelib.prereqs.install_prereqs')
Needs == <<Event("needs", "pavelib.prereqs.install_prereqs", <<>>)>>

\* lines 28-30: the system check of run_server.
InvalidSystem ==
    << Event("print", "sys.stderr", <<"System must be either lms or studio">>),
       Event("exit", "", <<"1">>) >>

\* lines 32-40 of run_server: the defaults and the asset update.
AssetStep(system, settings, asset_settings, collect_static) ==
    LET asset1 == IF ~Truthy(settings) THEN StrV(DEFAULT_SETTINGS)
                  ELSE asset_settings
    IN  IF Truthy(asset1)
        THEN << UpdateAssets(<<system, "--settings=" \o format(asset1), "--watch">>
                             \o (IF ~collect_static THEN <<"--skip-collect">>
                                 ELSE <<>>)) >>
        ELSE <<>>

\* lines 32-33 and 42-50 of run_server: the server process.
ServerStep(system, settings, port, no_contracts) ==
    LET settings1 == IF ~Truthy(settings) THEN StrV(DEFAULT_SETTINGS) ELSE settings
        port1 == IF port = None THEN IntV(DEFAULT_PORT[system]) ELSE port
        a == <<"runserver", "--traceback", "--pythonpath=.",
               "0.0.0.0:" \o format(port1)>>
             \o (IF ~no_contracts THEN <<"--contracts">> ELSE <<>>)
    IN  << Event("run_process", "", django_cmd(system, settings1.s, a)) >>

\* Mutant of run_server: the system is checked after the assets are updated.
run_server_late_check(system, settings, asset_settings, collect_static, port, no_contracts) ==
    IF system \notin {"lms", "studio"}
    THEN [events |-> AssetStep(system, settings, asset_settings, collect_static)
                       \o InvalidSystem,
          exit |-> 1, raised |-> "none"]
    ELSE [events |-> AssetStep(system, settings, asset_settings, collect_static)
                       \o ServerStep(system, settings, port, no_contracts),
          exit |-> -1, raised |-> "none"]

\* run_server, lines 19-50: the calls it makes and the status it exits
\* with (-1 when it does not call exit).
run_server(system, settings, asset_settings, collect_static, port, no_contracts) ==
    IF system \notin {"lms", "studio"}
    THEN [events |-> InvalidSystem, exit |-> 1, raised |-> "none"]
    ELSE [events |-> AssetStep(system, settings, asset_settings, collect_static)
                       \o ServerStep(system, settings, port, no_contracts),
          exit |-> -1, raised |-> "none"]

\* The options a task can be given; a field a task does not read is Absent.
NoOptions ==
    [system |-> Absent, settings |-> Absent, asset_settings |-> Absent,
     port |-> Absent, fast |-> Absent, optimized |-> Absent,
     no_contracts |-> Absent, collect_static |-> Absent,
     worker_settings |-> Absent, settings_lms |-> Absent,
     settings_cms |-> Absent, asset_settings_lms |-> Absent,
     asset_settings_cms |-> Absent]

Flag == { Absent, BoolV(TRUE) }
SettingsOpts == { Absent, StrV(""), StrV("devstack"), StrV("aws") }
AssetSettingsOpts == { Absent, StrV(""), StrV("devstack"), StrV("test_static") }
PortOpts == { Absent, StrV("9000") }
Systems == { "lms", "studio", "cms" }

Ran(name, options, r) ==
    /\ task' = [name |-> name, options |-> options]
    /\ events' = r.events
    /\ exit_status' = r.exit
    /\ raised' = r.raised
    /\ UNCHANGED <<auditVars, threadVars>>

\* lms and studio, lines 62-79 and 91-108: the body shared by the two tasks.
ServerTask(system, options) ==
    LET settings == getattr(options, "settings", StrV(DEFAULT_SETTINGS))
        asset_settings == getattr(options, "asset_settings", settings)
        port == getattr(options, "port", None)
        fast == getattr(options, "fast", BoolV(FALSE))
        collect_static == ~Truthy(fast) /\ asset_settings # settings
        no_contracts == getattr(options, "no_contracts", BoolV(FALSE))
        r == run_server(system, settings,
                        IF ~Truthy(fast) THEN asset_settings ELSE None,
                        collect_static, port, Truthy(no_contracts))
    IN  [events |-> Needs \o r.events, exit |-> r.exit, raised |-> r.raised]

TaskOptions ==
    { [NoOptions EXCEPT !.settings = s, !.asset_settings = a, !.port = p,
                        !.fast = f, !.no_contracts = c] :
        s \in SettingsOpts, a \in AssetSettingsOpts, p \in PortOpts,
        f \in Flag, c \in Flag }

lms ==
    /\ task.name = "none"
    /\ \E options \in TaskOptions : Ran("lms", options, ServerTask("lms", options))

studio ==
    /\ task.name = "none"
    /\ \E options \in TaskOptions :
          Ran("studio", options, ServerTask("studio", options))

\* devstack, lines 114-147; argparse gives --settings the default
\* DEFAULT_SETTINGS, --asset-settings the default None and the flags False.
DevstackBody(options) ==
    LET a_system == options.system.s
        a_fast == Truthy(options.fast)
        a_optimized == Truthy(options.optimized)
        a_settings == getattr(options, "settings", StrV(DEFAULT_SETTINGS))
        a_asset_settings == getattr(options, "asset_settings", None)
        a_no_contracts == Truthy(options.no_contracts)
        settings0 == a_settings
        asset_settings0 == IF Truthy(a_asset_settings) THEN a_asset_settings
                           ELSE settings0
        settings == IF a_optimized THEN StrV(OPTIMIZED_SETTINGS) ELSE settings0
        asset_settings == IF a_optimized THEN StrV(OPTIMIZED_ASSETS_SETTINGS)
                          ELSE asset_settings0
        collect_static == ~a_fast /\ asset_settings # settings
        r == run_server(a_system, settings,
                        IF ~a_fast THEN asset_settings ELSE None,
                        collect_static, None, a_no_contracts)
    IN  [events |-> Needs \o r.events, exit |-> r.exit, raised |-> r.raised]

DevstackOptions ==
    { [NoOptions EXCEPT !.system = StrV(y), !.fast = f, !.optimized = o,
                        !.settings = s, !.asset_settings = a,
                        !.no_contracts = c] :
        y \in Systems, f \in Flag, o \in Flag, s \in SettingsOpts,
        a \in { Absent, StrV(""), StrV("test_static") }, c \in Flag }

devstack ==
    /\ task.name = "none"
    /\ \E options \in DevstackOptions :
          Ran("devstack", options, DevstackBody(options))

\* A direct call of run_server with every argument given.
RunServerArgs ==
    { [NoOptions EXCEPT !.system = StrV(y), !.settings = s,
                        !.asset_settings = a, !.collect_static = BoolV(k),
                        !.port = p, !.no_contracts = BoolV(c)] :
        y \in Systems,
        s \in { None, StrV(""), StrV("devstack"), StrV("aws") },
        a \in { None, StrV(""), StrV("devstack"), StrV("test_static") },
        k \in BOOLEAN, p \in { None, IntV(9000) }, c \in BOOLEAN }

call_run_server ==
    /\ task.name = "none"
    /\ \E o \in RunServerArgs :
          Ran("run_server", o,
              run_server(o.system.s, o.settings, o.asset_settings,
                         Truthy(o.collect_static), o.port,
                         Truthy(o.no_contracts)))

\* Mutant of AllServersAssets: the watcher is started before the assets
\* are updated and collected.
AllServersAssets_watch_first(asset_settings, asset_settings_lms, asset_settings_cms, collect_static) ==
    << Event("call_task", "pavelib.assets.watch_assets", <<"background=True">>),
       UpdateAssets(<<"lms", "studio", "--settings=" \o format(asset_settings),
                      "--skip-collect">>) >>
    \o (IF collect_static
        THEN << Event("collect_assets", "lms", <<format(asset_settings_lms)>>),
                Event("collect_assets", "studio", <<format(asset_settings_cms)>>) >>
        ELSE <<>>)

\* lines 199-208 of run_all_servers: what is done when fast is not set.
AllServersAssets(asset_settings, asset_settings_lms, asset_settings_cms, collect_static) ==
    << UpdateAssets(<<"lms", "studio", "--settings=" \o format(asset_settings),
                      "--skip-collect">>) >>
    \o (IF collect_static
        THEN << Event("collect_assets", "lms", <<format(asset_settings_lms)>>),
                Event("collect_assets", "studio", <<format(asset_settings_cms)>>) >>
        ELSE <<>>)
    \o << Event("call_task", "pavelib.assets.watch_assets", <<"background=True">>) >>

\* run_all_servers, lines 177-227.
RunAllServersBody(options) ==
    LET settings0 == getattr(options, "settings", StrV(DEFAULT_SETTINGS))
        asset_settings0 == getattr(options, "asset_settings", settings0)
        worker_settings == getattr(options, "worker_settings", StrV("dev_with_worker"))
        fast == getattr(options, "fast", BoolV(FALSE))
        optimized == getattr(options, "optimized", BoolV(FALSE))
        no_contracts == getattr(options, "no_contracts", BoolV(FALSE))
        settings == IF Truthy(optimized) THEN StrV(OPTIMIZED_SETTINGS)
                    ELSE settings0
        asset_settings == IF Truthy(optimized) THEN StrV(OPTIMIZED_ASSETS_SETTINGS)
                          ELSE asset_settings0
        settings_lms == getattr(options, "settings_lms", settings)
        settings_cms == getattr(options, "settings_cms", settings)
        asset_settings_lms == getattr(options, "asset_settings_lms", asset_settings)
        asset_settings_cms == getattr(options, "asset_settings_cms", asset_settings)
        collect_static == ~Truthy(fast) /\ asset_settings # settings
        lms_runserver_args ==
            <<"0.0.0.0:" \o format(IntV(DEFAULT_PORT["lms"]))>>
            \o (IF ~Truthy(no_contracts) THEN <<"--contracts">> ELSE <<>>)
        cms_runserver_args ==
            <<"0.0.0.0:" \o format(IntV(DEFAULT_PORT["studio"]))>>
            \o (IF ~Truthy(no_contracts) THEN <<"--contracts">> ELSE <<>>)
        launch ==
            [op |-> "run_multi_processes", target |-> "", args |-> <<>>,
             cmds |-> <<
                django_cmd("lms", settings_lms.s,
                           <<"runserver", "--traceback", "--pythonpath=.">>
                           \o lms_runserver_args),
                django_cmd("studio", settings_cms.s,
                           <<"runserver", "--traceback", "--pythonpath=.">>
                           \o cms_runserver_args),
                django_cmd("lms", worker_settings.s,
                           <<"celery", "worker", "--beat", "--loglevel=INFO",
                             "--pythonpath=.">>) >>]
    IN  [events |-> Needs
                    \o (IF ~Truthy(fast)
                        THEN AllServersAssets(asset_settings, asset_settings_lms,
                                              asset_settings_cms, collect_static)
                        ELSE <<>>)
                    \o <<launch>>,
         exit |-> -1, raised |-> "none"]

AllServersOptions ==
    { [NoOptions EXCEPT !.settings = s, !.asset_settings = a,
                        !.worker_settings = w, !.fast = f, !.optimized = o,
                        !.settings_lms = sl, !.settings_cms = sc,
                        !.asset_settings_lms = al, !.asset_settings_cms = ac,
                        !.no_contracts = c] :
        s \in { Absent, StrV("devstack"), StrV("aws") },
        a \in { Absent, StrV("devstack"), StrV("test_static") },
        w \in { Absent, StrV("worker") }, f \in Flag, o \in Flag,
        sl \in { Absent, StrV("lms_only") }, sc \in { Absent, StrV("cms_only") },
        al \in { Absent, StrV("lms_assets") }, ac \in { Absent, StrV("cms_assets") },
        c \in Flag }

run_all_servers ==
    /\ task.name = "none"
    /\ \E options \in AllServersOptions :
          Ran("run_all_servers", options, RunAllServersBody(options))

\* celery, lines 150-160.
CeleryBody(options) ==
    LET settings == getattr(options, "settings", StrV("dev_with_worker"))
    IN  [events |-> Needs
                    \o << Event("run_process", "",
                                django_cmd("lms", settings.s,
                                           <<"celery", "worker", "--beat",
                                             "--loglevel=INFO", "--pythonpath=.">>)) >>,
         exit |-> -1, raised |-> "none"]

SettingsOnlyOptions ==
    { [NoOptions EXCEPT !.settings = s] :
        s \in { Absent, StrV(""), StrV("aws") } }

celery ==
    /\ task.name = "none"
    /\ \E options \in SettingsOnlyOptions :
          Ran("celery", options, CeleryBody(options))

\* update_db, lines 230-241: syncdb --migrate for lms and then for cms, with
\* the settings of paver's global options.  sh raises BuildFailure when the
\* command exits non-zero, which is decided outside the program; nothing
\* catches it here, so the loop stops at the call that failed (failing is
\* the position of that call, 0 when every command succeeds).
UpdateDbBody(options, failing) ==
    LET settings == getattr(options, "settings", StrV(DEFAULT_SETTINGS))
        cmd(system) == Event("sh", "",
                             django_cmd(system, settings.s,
                                        <<"syncdb", "--migrate", "--traceback",
                                          "--pythonpath=.">>))
        systems == <<"lms", "cms">>
        reached == IF failing = 0 THEN Len(systems) ELSE failing
    IN  [events |-> Needs \o [i \in 1..reached |-> cmd(systems[i])],
         exit |-> -1,
         raised |-> IF failing = 0 THEN "none" ELSE "BuildFailure"]

update_db ==
    /\ task.name = "none"
    /\ \E options \in SettingsOnlyOptions, failing \in 0..2 :
          Ran("update_db", options, UpdateDbBody(options, failing))

\* check_settings, lines 244-265: the import is piped into the django shell;
\* whether sh raises is decided outside the program, and the bare except
\* turns a failure into one print to stderr, so no exception leaves the task.
CheckSettingsBody(options, sh_fails) ==
    LET system == options.system.s
        settings == options.settings.s
        import_cmd == "echo 'import " \o system \o ".envs." \o settings \o "'"
        django_shell_cmd == django_cmd(system, settings,
                                       <<"shell", "--plain", "--pythonpath=.">>)
    IN  [events |-> Needs
                    \o << Event("sh", "", <<import_cmd, "|">> \o django_shell_cmd) >>
                    \o (IF sh_fails
                        THEN << Event("print", "sys.stderr",
                                      <<"Failed to import settings">>) >>
                        ELSE <<>>),
         exit |-> -1, raised |-> "none"]

CheckSettingsArgs ==
    { [NoOptions EXCEPT !.system = StrV(y), !.settings = s] :
        y \in Systems, s \in { StrV("devstack"), StrV("aws") } }

check_settings ==
    /\ task.name = "none"
    /\ \E options \in CheckSettingsArgs, sh_fails \in BOOLEAN :
          Ran("check_settings", options, CheckSettingsBody(options, sh_fails))

InitServers == NoAudit /\ NoThreads /\ NoPaver

NextServers ==
    \/ lms
    \/ studio
    \/ devstack
    \/ call_run_server
    \/ celery
    \/ run_all_servers
    \/ update_db
    \/ check_settings

SpecServers == InitServers /\ [][NextServers]_vars

----------------------------------------------------------------------------
(* The line the specification asks for, computed from the set of fields:   *)
(* repeatedly take the pair with the least key.                            *)

LeastKeyPair(S) == CHOOSE p \in S : \A q \in S \ {p} : StrLess(p[1], q[1])

RECURSIVE RenderFields(_)
RenderFields(S) ==
    IF S = {} THEN <<>>
    ELSE LET p == LeastKeyPair(S)
             rest == S \ {p}
         IN  p[1] \o <<"=", "\"">> \o str(p[2]) \o <<"\"">>
               \o (IF rest = {} THEN <<>> ELSE <<",", " ">> \o RenderFields(rest))

ExpectedLine(name, S) == name \o <<":", " ">> \o RenderFields(S)

\* Every order in which the same items can be supplied.
Reorderings(items) ==
    LET n == Len(items)
    IN  { [i \in 1..n |-> items[f[i]]] :
            f \in { g \in [1..n -> 1..n] : \A i, j \in 1..n : i # j => g[i] # g[j] } }

\* The keys read back from an emitted line: the payload starts after the
\* first ": "; a key runs to the next "="; its value runs from the quote
\* after the "=" to the first quote that ends the line or is followed by ", ".
Least(S) == CHOOSE m \in S : \A k \in S : m <= k

PayloadStart(line) ==
    LET S == { i \in 1..(Len(line) - 1) : line[i] = ":" /\ line[i + 1] = " " }
    IN  IF S = {} THEN Len(line) + 1 ELSE Least(S) + 2

RECURSIVE ParseKeys(_, _)
ParseKeys(line, i) ==
    IF i > Len(line) THEN <<>>
    ELSE LET eqs == { j \in i..Len(line) : line[j] = "=" }
             e == IF eqs = {} THEN Len(line) + 1 ELSE Least(eqs)
             closes == { j \in (e + 2)..Len(line) :
                           /\ line[j] = "\""
                           /\ \/ j = Len(line)
                              \/ /\ j + 2 <= Len(line)
                                 /\ line[j + 1] = ","
                                 /\ line[j + 2] = " " }
             q == IF closes = {} THEN Len(line) ELSE Least(closes)
         IN  <<SubSeq(line, i, e - 1)>> \o ParseKeys(line, q + 3)

KeysOfLine(line) == ParseKeys(line, PayloadStart(line))

----------------------------------------------------------------------------
(* Claims about audit_log.                                                 *)

\* The calls of the history that wrote an entry, and the line each wrote.
Logged == { i \in 1..Len(calls) : calls[i].entry # 0 }
LineOf(i) == sink[calls[i].entry].msg

\* C1: every emitted line is exactly name + ": " + the pairs key="value"
\* (value by its default string conversion, unescaped) in ascending key
\* order joined by ", "; for the empty mapping the line is exactly
\* "<name>: ".
C1_ExactLine ==
    \A i \in Logged :
        /\ LineOf(i) = ExpectedLine(calls[i].name, PairSet(calls[i].kwargs))
        /\ calls[i].kwargs = <<>> => LineOf(i) = calls[i].name \o <<":", " ">>

\* audit_log("x", b=1, a=-42, c=None) has emitted x: a="-42", b="1", c="None"
C1_Witness ==
    /\ Len(calls) = 1
    /\ calls[1].name = <<"x">>
    /\ calls[1].kwargs = << <<<<"b">>, PyInt(1)>>, <<<<"a">>, PyInt(-42)>>,
                            <<<<"c">>, PyNone>> >>
    /\ sink[1].msg = << "x", ":", " ",
                        "a", "=", "\"", "-", "4", "2", "\"", ",", " ",
                        "b", "=", "\"", "1", "\"", ",", " ",
                        "c", "=", "\"", "N", "o", "n", "e", "\"" >>

\* C2: the emitted line is the line audit_log renders for every other order
\* in which the caller could have supplied the same fields.
C2_OrderIndependent ==
    \A i \in Logged :
        \A p \in Reorderings(calls[i].kwargs) :
            Message(calls[i].name, Payload(sorted(p))) = LineOf(i)

\* a call whose three fields were supplied in descending key order
C2_Witness ==
    /\ Len(sink) = 1
    /\ Len(calls[1].kwargs) = 3
    /\ \A j \in 1..2 : StrLess(calls[1].kwargs[j + 1][1], calls[1].kwargs[j][1])

\* C3: in every emitted line the keys read back from the text are in
\* strictly ascending code-point order and are exactly the keys of the
\* call, each once.
C3_KeysAscending ==
    \A i \in Logged :
        LET ks == KeysOfLine(LineOf(i))
        IN  /\ \A j \in 1..(Len(ks) - 1) : StrLess(ks[j], ks[j + 1])
            /\ Len(ks) = Len(calls[i].kwargs)
            /\ { ks[j] : j \in 1..Len(ks) } = KeySet(calls[i].kwargs)

\* a line holding the keys B, ab and b, supplied as b, ab, B, with a value
\* that contains a double quote
C3_Witness ==
    /\ Len(sink) = 1
    /\ KeysOfLine(sink[1].msg) = << <<"B">>, <<"a", "b">>, <<"b">> >>
    /\ calls[1].kwargs[1][1] = <<"b">>
    /\ calls[1].kwargs[3][1] = <<"B">>
    /\ \E j \in 1..3 : calls[1].kwargs[j][2] = PyStr(<<"a", "\"", "b">>)

\* C4: every call writes exactly one entry, at INFO level, returns None and
\* signals no error: after n calls the sink holds n entries, all INFO, no
\* call of the history raised, and the last call returned None.
C4_OneInfoEntryPerCall ==
    /\ Len(sink) = Len(calls)
    /\ \A i \in 1..Len(sink) : sink[i].level = "INFO"
    /\ \A i \in 1..Len(calls) : calls[i].raised = "none"
    /\ calls # <<>> => ret = "None"

\* C6: two calls with the same name and the same fields ended the same way
\* and, when they emitted, emitted the same line, whatever calls were made
\* before or between them.
C6_Deterministic ==
    \A i, j \in 1..Len(calls) :
        (/\ calls[i].name = calls[j].name
         /\ PairSet(calls[i].kwargs) = PairSet(calls[j].kwargs))
        => /\ calls[i].raised = calls[j].raised
           /\ (i \in Logged) = (j \in Logged)
           /\ i \in Logged => LineOf(i) = LineOf(j)

\* the first and third calls have the same name and fields; the call between
\* them has other fields
C6_Witness ==
    /\ Len(sink) = 3
    /\ calls[1].name = calls[3].name
    /\ PairSet(calls[1].kwargs) = PairSet(calls[3].kwargs)
    /\ Len(calls[1].kwargs) = 2
    /\ calls[1].kwargs # calls[3].kwargs
    /\ PairSet(calls[2].kwargs) # PairSet(calls[1].kwargs)
    /\ calls[2].kwargs # <<>>

\* C5: under every interleaving the sink holds one complete line per
\* finished call: as many entries as calls that have emitted, every entry
\* is the whole line of one of those calls, and each such call's line is
\* there exactly once.
C5_NoInterleaving ==
    LET emitted == { t \in Threads : pc[t] = "done" }
        line(t) == ExpectedLine(args[t].name, PairSet(args[t].kwargs))
    IN  /\ Len(sink) = Cardinality(emitted)
        /\ \A i \in 1..Len(sink) : \E t \in emitted : sink[i].msg = line(t)
        /\ \A t \in emitted :
              Cardinality({ i \in 1..Len(sink) : sink[i].msg = line(t) }) = 1

\* both callers have finished, the second one emitted first, and the
\* first one logged two fields
C5_Witness ==
    /\ pc # <<>>
    /\ \A t \in Threads : pc[t] = "done"
    /\ Len(args[1].kwargs) = 2
    /\ args[2].kwargs # <<>>
    /\ sink[1].msg = ExpectedLine(args[2].name, PairSet(args[2].kwargs))
    /\ sink[2].msg = ExpectedLine(args[1].name, PairSet(args[1].kwargs))

----------------------------------------------------------------------------
(* Claims about pavelib/servers.py.                                        *)

HasUpdateAssets ==
    \E i \in 1..Len(events) : events[i].target = "pavelib.assets.update_assets"

HasRunProcess == \E i \in 1..Len(events) : events[i].op = "run_process"

\* The calls of the task itself, without the prerequisite of @needs.
Body == SelectSeq(events, LAMBDA e : e.op # "needs")

\* The system the invoked task passes to run_server.
SystemGiven ==
    IF task.name \in {"lms", "studio"} THEN task.name ELSE task.options.system.s

\* C7: a call of run_server with asset_settings None never invokes the
\* update_assets task, whatever the other arguments.
C7_NoAssetSettingsNoAssets ==
    (task.name = "run_server" /\ task.options.asset_settings = None)
        => ~HasUpdateAssets

\* C8: with fast set, lms, studio and devstack (given a valid system) never
\* invoke update_assets and still launch the server process.
C8_FastSkipsAssets ==
    (/\ task.name \in {"lms", "studio", "devstack"}
     /\ Truthy(task.options.fast)
     /\ SystemGiven \in {"lms", "studio"})
        => (~HasUpdateAssets /\ HasRunProcess)

\* C9: run_server with a system other than lms or studio prints the error
\* to stderr and exits with status 1, having invoked neither update_assets
\* nor a server process; with lms or studio it neither prints the error
\* nor exits.
C9_InvalidSystemExits ==
    task.name \in {"run_server", "devstack", "lms", "studio"} =>
        IF SystemGiven \notin {"lms", "studio"}
        THEN /\ exit_status = 1
             /\ Len(Body) = 2
             /\ Body[1].op = "print" /\ Body[1].target = "sys.stderr"
             /\ Body[2].op = "exit" /\ Body[2].args = <<"1">>
             /\ ~HasUpdateAssets
             /\ ~HasRunProcess
        ELSE /\ exit_status = -1
             /\ \A i \in 1..Len(Body) : Body[i].op \notin {"print", "exit"}
             /\ HasRunProcess

\* run_server('cms', settings=None, asset_settings='test_static') has exited
C9_Witness ==
    /\ task.name = "run_server"
    /\ task.options.system = StrV("cms")
    /\ task.options.settings = None
    /\ task.options.asset_settings = StrV("test_static")
    /\ exit_status = 1

\* C10: run_all_servers without fast invokes update_assets, then (only if
\* the asset settings in effect differ from the settings in effect)
\* collect_assets for lms and then for studio, then watch_assets in the
\* background, and last launches the LMS server, the Studio server and the
\* Celery worker together; with fast it only launches the three processes.
C10_AllServersOrder ==
    task.name = "run_all_servers" =>
        LET o == task.options
            settings == IF Truthy(o.optimized) THEN StrV(OPTIMIZED_SETTINGS)
                        ELSE IF o.settings = Absent THEN StrV(DEFAULT_SETTINGS)
                        ELSE o.settings
            asset_settings ==
                IF Truthy(o.optimized) THEN StrV(OPTIMIZED_ASSETS_SETTINGS)
                ELSE IF o.asset_settings # Absent THEN o.asset_settings
                ELSE settings
            steps == [i \in 1..Len(Body) |-> <<Body[i].op, Body[i].target>>]
            last == Body[Len(Body)]
        IN  /\ steps =
                 (IF Truthy(o.fast) THEN <<>>
                  ELSE << <<"call_task", "pavelib.assets.update_assets">> >>
                       \o (IF asset_settings # settings
                           THEN << <<"collect_assets", "lms">>,
                                   <<"collect_assets", "studio">> >>
                           ELSE <<>>)
                       \o << <<"call_task", "pavelib.assets.watch_assets">> >>)
                 \o << <<"run_multi_processes", "">> >>
            /\ Len(last.cmds) = 3
            /\ last.cmds[1][2] = "lms" /\ last.cmds[1][4] = "runserver"
            /\ last.cmds[2][2] = "studio" /\ last.cmds[2][4] = "runserver"
            /\ last.cmds[3][2] = "lms" /\ last.cmds[3][4] = "celery"
            /\ \A i \in 1..Len(Body) :
                  Body[i].target = "pavelib.assets.watch_assets"
                      => Body[i].args = <<"background=True">>

\* run_all_servers without fast, asset settings differing from the settings:
\* all five steps were taken
C10_Witness ==
    /\ task.name = "run_all_servers"
    /\ ~Truthy(task.options.fast)
    /\ ~Truthy(task.options.optimized)
    /\ task.options.settings = StrV("aws")
    /\ task.options.asset_settings = StrV("test_static")
    /\ Len(Body) = 5

=============================================================================
